---- MODULE Spec2Model ----
(***************************************************************************)
(* NERRF tracker (tracker/cmd/tracker/main.go): the ring-buffer read loop  *)
(* (server.broadcastEvents), the per-consumer gRPC stream handler          *)
(* (server.StreamEvents) and the lifecycle in main, as one state machine.  *)
(* A subscriber channel is identified with the session that made it.       *)
(***************************************************************************)
EXTENDS Integers, Sequences, FiniteSets, TLC

\* ---------------------------------------------------------------- bounds
\* number of consumer sessions that may connect
NumSessions == 2
\* number of raw samples the kernel side writes in one run
MaxRecords == 3
\* raw samples that may be pending in the ring buffer at once
MaxRing == 1
\* capacity of a subscriber channel (the program uses 100, main.go:185;
\* scaled down so that a full channel is reachable)
ChanCap == 2
\* raw samples fed to one run of the decoder alone
MaxDecode == 2
Sessions == 1..NumSessions

\* holders of s.mu other than a session
Unlocked == 0
LoopHolds == -1

\* ------------------------------------------------------- record decoding
\* binary.Size of struct event: ts, pid, tid, comm, syscall_id, ret_val,
\* bytes, path, new_path (encoding/binary packs the fields, no padding)
RecordSize == 8 + 4 + 4 + 16 + 4 + 8 + 8 + 256 + 256

\* lengths of raw samples the kernel side may hand over
SampleLens == {RecordSize - 1, RecordSize, RecordSize + 1}

\* binary.Read(bytes.NewReader(raw), LittleEndian, &e): io.ReadFull of
\* RecordSize bytes; fails (EOF / ErrUnexpectedEOF) only when the sample is
\* shorter, bytes after the first RecordSize are left unread
BinaryRead(len) == len >= RecordSize

\* (variant) a decode error ends the loop
DecodeErrorReturns == "done"

\* pc of the loop after a decode error: `continue`
DecodeErrorNext == "read"

\* (variant) a full channel gives up its oldest batch for the new one
TrySendEvict(q, b) == IF Len(q) < ChanCap THEN Append(q, b) ELSE Append(Tail(q), b)

\* (variant) the new batch overtakes the pending ones
TrySendFront(q, b) == IF Len(q) < ChanCap THEN <<b>> \o q ELSE q

\* (variant) the last slot of the buffer is never used
TrySendShort(q, b) == IF Len(q) < ChanCap - 1 THEN Append(q, b) ELSE q

\* (variant) the send does not look at the capacity
TrySendUnbounded(q, b) == Append(q, b)

\* select { case ch <- batch: default: } on a buffered channel
TrySend(q, b) == IF Len(q) < ChanCap THEN Append(q, b) ELSE q

\* (variant) the channel is closed but stays in the map
UnregisterKeeps(cl, s) == cl

\* (variant) the cleanup empties the whole map
UnregisterAll(cl, s) == {}

\* delete(s.clients, clientChan)
Unregister(cl, s) == cl \ {s}

\* (variant) a receive empties the channel buffer
ChanRestDrains(q) == <<>>

\* batch := <-clientChan leaves the rest of the channel buffer
ChanRest(q) == Tail(q)

\* wall clock minus monotonic clock at startup, in some unit
BootOffsets == {5}

\* (variant) the offset is taken anew for the n-th record, and has drifted
StampBaseDrifts(bt, n) == bt + n

\* eventTime := s.bootTime.Add(...): the offset the n-th record is stamped with
StampBase(bt, n) == bt

\* values of the syscall_id field tried: the table, its neighbours and a
\* large one (the largest integer TLC computes with)
SyscallIds == {0, 1, 2, 3, 4, 2147483647}

\* (variant) the table is indexed from 0
SyscallNameShifted(id) ==
    CASE id = 0 -> "openat" [] id = 1 -> "write" [] id = 2 -> "rename"
      [] OTHER -> "unknown"

\* syscallName
SyscallName(id) ==
    CASE id = 1 -> "openat" [] id = 2 -> "write" [] id = 3 -> "rename"
      [] OTHER -> "unknown"

\* ------------------------------------------------------- event timestamps
\* a 64-bit quantity is written k * 2^63 + r (TLC's integers are narrower):
\* the field ts of a record is hi * 2^63 + lo with hi its top bit
TsHighs == {0, 1}
TsLows == {0, 1, 1000}

\* time.Duration(e.Ts) * time.Nanosecond: the uint64 is converted to int64
\* (two's complement: the top bit weighs -2^63), Nanosecond is 1
DurationOf(hi, lo) == [k |-> 0 - hi, r |-> lo]

\* s.bootTime.Add(d), then timestamppb.New (seconds and nanoseconds, exact)
TimeAdd(bt, d) == [k |-> d.k, r |-> bt + d.r]

\* eventTime of a record whose ts is hi * 2^63 + lo
EventTime(bt, hi, lo) == TimeAdd(StampBase(bt, 0), DurationOf(hi, lo))

\* ---------------------------------------------------- fixed-width strings
\* the "?" sanitizeString passes to strings.ToValidUTF8
Placeholder == <<63>>

RECURSIVE TrimRight(_)
\* strings.TrimRight(string(b), "\x00"): the trailing zero bytes go, a zero
\* byte before another byte stays
TrimRight(b) ==
    IF b = <<>> THEN b
    ELSE IF b[Len(b)] = 0 THEN TrimRight(SubSeq(b, 1, Len(b) - 1))
    ELSE b

\* byte c is a continuation byte within lo..hi
Cont(s, i, lo, hi) == Len(s) >= i /\ s[i] >= lo /\ s[i] <= hi

\* utf8.DecodeRuneInString(s): the width of the encoding s starts with, 0 if
\* s starts with an invalid byte (RuneError, width 1)
RuneWidth(s) ==
    LET c == s[1] IN
    IF c < 128 THEN 1
    ELSE IF c >= 194 /\ c <= 223
         THEN IF Cont(s, 2, 128, 191) THEN 2 ELSE 0
    ELSE IF c >= 224 /\ c <= 239
         THEN IF /\ Cont(s, 2, IF c = 224 THEN 160 ELSE 128,
                                IF c = 237 THEN 159 ELSE 191)
                 /\ Cont(s, 3, 128, 191) THEN 3 ELSE 0
    ELSE IF c >= 240 /\ c <= 244
         THEN IF /\ Cont(s, 2, IF c = 240 THEN 144 ELSE 128,
                                IF c = 244 THEN 143 ELSE 191)
                 /\ Cont(s, 3, 128, 191) /\ Cont(s, 4, 128, 191) THEN 4 ELSE 0
    ELSE 0

RECURSIVE ValidString(_)
\* utf8.ValidString
ValidString(s) ==
    IF s = <<>> THEN TRUE
    ELSE LET w == RuneWidth(s) IN
         w > 0 /\ ValidString(SubSeq(s, w + 1, Len(s)))

RECURSIVE ToValidFrom(_, _, _)
\* the loop of strings.ToValidUTF8: a valid rune is copied, an invalid byte
\* is replaced unless the byte before it was invalid too
ToValidFrom(s, rep, invalid) ==
    IF s = <<>> THEN <<>>
    ELSE LET w == RuneWidth(s) IN
         IF w = 0
         THEN (IF invalid THEN <<>> ELSE rep)
                  \o ToValidFrom(SubSeq(s, 2, Len(s)), rep, TRUE)
         ELSE SubSeq(s, 1, w) \o ToValidFrom(SubSeq(s, w + 1, Len(s)), rep, FALSE)

\* strings.ToValidUTF8(s, replacement)
ToValidUTF8(s, rep) == ToValidFrom(s, rep, FALSE)

\* (variant) the field is cut at its first zero byte
SanitizeStringCStr(b) ==
    LET n == CHOOSE i \in 1..(Len(b) + 1) :
                 /\ (i <= Len(b) => b[i] = 0)
                 /\ \A j \in 1..(i - 1) : b[j] # 0
        s == SubSeq(b, 1, n - 1)
    IN  IF ~ValidString(s) THEN ToValidUTF8(s, Placeholder) ELSE s

\* (variant) a field that is not valid text fails the record: no string
SanitizeStringStrict(b) ==
    LET s == TrimRight(b) IN IF ~ValidString(s) THEN <<>> ELSE s

\* sanitizeString
SanitizeString(b) ==
    LET s == TrimRight(b) IN
    IF ~ValidString(s) THEN ToValidUTF8(s, Placeholder) ELSE s

\* byte fields tried for comm, path and new_path (their widths, 16 and 256,
\* cut to 4): text with zero padding, nothing but zeros, a zero byte inside
\* the text, no zero byte at all, a two-byte rune, invalid bytes alone, in a
\* run, before the padding, a lead byte without its continuation
ValidFields ==
    { <<97, 98, 0, 0>>, <<0, 0, 0, 0>>, <<97, 0, 98, 0>>, <<97, 98, 99, 100>>,
      <<195, 169, 0, 0>>, <<97, 195, 169, 98>> }
InvalidFields ==
    { <<255, 97, 0, 0>>, <<97, 255, 254, 98>>, <<97, 255, 0, 0>>,
      <<195, 0, 0, 0>>, <<97, 98, 99, 195>>, <<169, 97, 0, 0>> }
ByteFields == ValidFields \cup InvalidFields

\* a field of plain text
PlainField == <<97, 98, 0, 0>>

\* raw samples tried: every length with every syscall_id, every ts, every
\* byte field in each of the three string fields
Samples ==
    LET base == [len |-> RecordSize, id |-> 1, tsHi |-> 0, tsLo |-> 1, pid |-> 1,
                 comm |-> PlainField, path |-> PlainField, newPath |-> PlainField]
    IN  {[[base EXCEPT !.len = l] EXCEPT !.id = i] :
            l \in SampleLens, i \in SyscallIds}
        \cup {[[base EXCEPT !.tsHi = h] EXCEPT !.tsLo = w] :
            h \in TsHighs, w \in TsLows}
        \cup {[[base EXCEPT !.comm = f] EXCEPT !.pid = 2] : f \in ByteFields}
        \cup {[[base EXCEPT !.path = f] EXCEPT !.id = 3] : f \in ByteFields}
        \cup {[[base EXCEPT !.newPath = f] EXCEPT !.id = 3] : f \in ByteFields}

\* var e event; binary.Read(...): e is filled from the first RecordSize
\* bytes of the sample
EventStruct(smp) == [smp EXCEPT !.len = RecordSize]

\* the k-th sample the kernel side writes in a run of the program, of
\* length len: syscall_id k, a path and (for k = 3) a new_path
KernelSample(k, len) ==
    [len |-> len, id |-> k, tsHi |-> 0, tsLo |-> k, pid |-> 1,
     comm |-> PlainField,
     path |-> <<96 + k, 47, 0, 0>>,
     newPath |-> IF k = 3 THEN <<120, 0, 0, 0>> ELSE <<0, 0, 0, 0>>]

\* (variant) the batch is made without its event
MakeBatchEmpty(e) == <<>>

\* batch := &pb.EventBatch{Events: []*pb.Event{pbEvent}}: the Events list
MakeBatch(e) == <<e>>

\* pbEvent := &pb.Event{...} made from the struct e (src and srcId keep
\* what it was made from)
PbEvent(bt, smp) ==
    [ts |-> EventTime(bt, smp.tsHi, smp.tsLo),
     pid |-> smp.pid,
     comm |-> SanitizeString(smp.comm),
     syscall |-> SyscallName(smp.id),
     path |-> SanitizeString(smp.path),
     newPath |-> SanitizeString(smp.newPath),
     srcId |-> smp.id,
     src |-> smp]

\* no raw sample at hand
NoSample ==
    [len |-> 0, id |-> 0, tsHi |-> 0, tsLo |-> 0, pid |-> 0,
     comm |-> <<>>, path |-> <<>>, newPath |-> <<>>]

\* (variant) a send error leaves the handler without the deferred cleanup
SendErrorLeaks == "done"

\* (variant) after a send error the handler goes on with its loop
SendErrorContinues == "select"

\* pc of a session after stream.Send failed: return err (runs the defer)
SendErrorNext == "unreg_lock"

VARIABLES
    mainPc,     \* position of main
    sigBuf,     \* signals buffered in sig (chan os.Signal, 1)
    srv,        \* grpc server: "new", "spawned", "serving", "stopped"
    rdClosed,   \* ring buffer reader closed
    ring,       \* raw sample lengths pending in the ring buffer
    produced,   \* samples written by the kernel side so far
    bpc,        \* position of broadcastEvents
    rec,        \* length of record.RawSample being handled
    nread,      \* records read so far (the current one has this index)
    batch,      \* batch being broadcast
    todo,       \* channels the range over s.clients has not visited yet
    decoded,    \* history: indices of the records decoded, in order
    made,       \* the EventBatch values made so far (made[i] from decoded[i])
    mu,         \* s.mu: Unlocked, LoopHolds or the session holding it
    clients,    \* s.clients
    spc,        \* position of each StreamEvents call
    queue,      \* buffer of each clientChan
    closed,     \* clientChan closed
    cur,        \* batch a session received and is sending
    ctxDone,    \* stream.Context() cancelled by the consumer
    fwd,        \* history: events sent to each consumer
    ret,        \* what each StreamEvents call returned
    panicked,   \* a goroutine panicked (send on closed channel)
    rdOpen,     \* ringbuf.NewReader returned a reader
    bootTime,   \* serv.bootTime (0: the zero value)
    bootWrites, \* history: assignments to serv.bootTime so far
    stamped,    \* history: the offsets event timestamps were computed from
    fatal,      \* the log.Fatalf that ended the process, "" if none
    raw,        \* decoder run: the raw sample at hand
    ev,         \* decoder run: the events decoded so far
    dleft       \* decoder run: samples still to come

mainVars == <<mainPc, sigBuf, srv>>
srcVars  == <<rdClosed, ring, produced>>
loopVars == <<bpc, rec, nread, batch, todo, decoded, made>>
regVars  == <<mu, clients>>
sessVars == <<spc, queue, closed, cur, ctxDone, fwd, ret>>
bootVars == <<rdOpen, bootTime, bootWrites, stamped, fatal>>
decVars  == <<raw, ev, dleft>>
vars == <<mainVars, srcVars, loopVars, regVars, sessVars, panicked, bootVars, decVars>>

\* the process runs: main has not returned, no log.Fatalf, no panic
Alive == mainPc \notin {"stopped", "aborted"} /\ ~panicked

InitProgram ==
    /\ mainPc = "open_source" /\ sigBuf = 0 /\ srv = "new"
    /\ rdClosed = FALSE /\ ring = <<>> /\ produced = 0
    /\ bpc = "idle" /\ rec = 0 /\ nread = 0 /\ batch = <<>> /\ todo = {}
    /\ decoded = <<>> /\ made = <<>>
    /\ mu = Unlocked /\ clients = {}
    /\ spc = [s \in Sessions |-> "init"]
    /\ queue = [s \in Sessions |-> <<>>]
    /\ closed = [s \in Sessions |-> FALSE]
    /\ cur = [s \in Sessions |-> <<>>]
    /\ ctxDone = [s \in Sessions |-> FALSE]
    /\ fwd = [s \in Sessions |-> <<>>]
    /\ ret = [s \in Sessions |-> "none"]
    /\ panicked = FALSE
    /\ rdOpen = FALSE /\ bootTime = 0 /\ bootWrites = 0 /\ stamped = {}
    /\ fatal = ""

Init == InitProgram /\ raw = NoSample /\ ev = <<>> /\ dleft = 0

\* ------------------------------------------------------------------ main
\* ringbuf.NewReader; log.Fatalf on error
MainOpenSource ==
    /\ Alive /\ mainPc = "open_source"
    /\ \/ mainPc' = "listen" /\ rdOpen' = TRUE /\ UNCHANGED fatal
       \/ mainPc' = "aborted" /\ fatal' = "ringbuf" /\ UNCHANGED rdOpen
    /\ UNCHANGED <<sigBuf, srv, srcVars, loopVars, regVars, sessVars, panicked,
                   bootTime, bootWrites, stamped, decVars>>

\* (variant) a failed net.Listen is logged and main goes on
MainListenLogsOnly ==
    /\ Alive /\ mainPc = "listen"
    /\ mainPc' = "boot_time"
    /\ fatal' \in {"", "listen"}
    /\ UNCHANGED <<sigBuf, srv, srcVars, loopVars, regVars, sessVars, panicked,
                   rdOpen, bootTime, bootWrites, stamped, decVars>>

\* net.Listen, grpc.NewServer, &server{...}; log.Fatalf on error
MainListen ==
    /\ Alive /\ mainPc = "listen"
    /\ \/ mainPc' = "boot_time" /\ UNCHANGED fatal
       \/ mainPc' = "aborted" /\ fatal' = "listen"
    /\ UNCHANGED <<sigBuf, srv, srcVars, loopVars, regVars, sessVars, panicked,
                   rdOpen, bootTime, bootWrites, stamped, decVars>>

\* unix.ClockGettime, serv.bootTime = ..., RegisterTrackerServer
MainBootTime ==
    /\ Alive /\ mainPc = "boot_time"
    /\ \/ /\ mainPc' = "go_bcast"
          /\ bootTime' \in BootOffsets
          /\ bootWrites' = bootWrites + 1
          /\ UNCHANGED fatal
       \/ /\ mainPc' = "aborted" /\ fatal' = "clock_gettime"
          /\ UNCHANGED <<bootTime, bootWrites>>
    /\ UNCHANGED <<sigBuf, srv, srcVars, loopVars, regVars, sessVars, panicked,
                   rdOpen, stamped, decVars>>

\* (variant) main goes on to serve without starting the loop
MainGoBroadcastSkipped ==
    /\ Alive /\ mainPc = "go_bcast"
    /\ mainPc' = "go_serve"
    /\ UNCHANGED <<sigBuf, srv, srcVars, loopVars, regVars, sessVars, panicked,
                   bootVars, decVars>>

\* go serv.broadcastEvents()
MainGoBroadcast ==
    /\ Alive /\ mainPc = "go_bcast"
    /\ mainPc' = "go_serve"
    /\ bpc' = "read"
    /\ UNCHANGED <<sigBuf, srv, srcVars, rec, nread, batch, todo, decoded, made,
                   regVars, sessVars, panicked, bootVars, decVars>>

\* go func() { s.Serve(lis) }(); signal.Notify(sig, ...)
MainGoServe ==
    /\ Alive /\ mainPc = "go_serve"
    /\ mainPc' = "wait_sig"
    /\ srv' = "spawned"
    /\ UNCHANGED <<sigBuf, srcVars, loopVars, regVars, sessVars, panicked, bootVars, decVars>>

\* the goroutine reaches s.Serve: the server accepts, unless GracefulStop
\* was called first (Serve then returns ErrServerStopped)
ServeStart ==
    /\ Alive /\ srv = "spawned"
    /\ srv' = "serving"
    /\ UNCHANGED <<mainPc, sigBuf, srcVars, loopVars, regVars, sessVars, panicked, bootVars, decVars>>

\* (variant) a signal that arrives once main has taken one ends the process
SignalKills ==
    /\ Alive /\ mainPc \in {"wait_sig", "rd_close", "graceful_stop", "wait_rpcs"}
    /\ sigBuf = 0
    /\ sigBuf' = 1
    /\ mainPc' = IF mainPc = "wait_sig" THEN mainPc ELSE "stopped"
    /\ UNCHANGED <<srv, srcVars, loopVars, regVars, sessVars, panicked, bootVars,
                   decVars>>

\* SIGINT / SIGTERM arrives after signal.Notify and is buffered in sig (a
\* signal arriving while one is buffered is discarded by the runtime)
Signal ==
    /\ Alive /\ mainPc \in {"wait_sig", "rd_close", "graceful_stop", "wait_rpcs"}
    /\ sigBuf = 0
    /\ sigBuf' = 1
    /\ UNCHANGED <<mainPc, srv, srcVars, loopVars, regVars, sessVars, panicked, bootVars, decVars>>

\* <-sig
MainRecvSignal ==
    /\ Alive /\ mainPc = "wait_sig" /\ sigBuf = 1
    /\ sigBuf' = 0
    /\ mainPc' = "rd_close"
    /\ UNCHANGED <<srv, srcVars, loopVars, regVars, sessVars, panicked, bootVars, decVars>>

\* (variant) main stops the server without closing the reader
MainRdCloseSkipped ==
    /\ Alive /\ mainPc = "rd_close"
    /\ mainPc' = "graceful_stop"
    /\ UNCHANGED <<sigBuf, srv, srcVars, loopVars, regVars, sessVars, panicked,
                   bootVars, decVars>>

\* rd.Close()
MainRdClose ==
    /\ Alive /\ mainPc = "rd_close"
    /\ rdClosed' = TRUE
    /\ mainPc' = "graceful_stop"
    /\ UNCHANGED <<sigBuf, srv, ring, produced, loopVars, regVars, sessVars, panicked, bootVars, decVars>>

\* s.GracefulStop(), first half: the listener is closed, no new RPC
MainGracefulStop ==
    /\ Alive /\ mainPc = "graceful_stop"
    /\ srv' = "stopped"
    /\ mainPc' = "wait_rpcs"
    /\ UNCHANGED <<sigBuf, srcVars, loopVars, regVars, sessVars, panicked, bootVars, decVars>>

\* s.GracefulStop(), second half: blocks until every pending RPC handler
\* has returned; then main returns (deferred rd.Close, links) and the
\* process exits with every goroutine
MainWaitRPCs ==
    /\ Alive /\ mainPc = "wait_rpcs"
    /\ \A s \in Sessions : spc[s] \in {"init", "done"}
    /\ mainPc' = "stopped"
    /\ rdClosed' = TRUE
    /\ UNCHANGED <<sigBuf, srv, ring, produced, loopVars, regVars, sessVars, panicked, bootVars, decVars>>

\* ------------------------------------------------------ kernel-side input
Produce ==
    /\ Alive /\ ~rdClosed
    /\ produced < MaxRecords /\ Len(ring) < MaxRing
    /\ \E len \in SampleLens : ring' = Append(ring, len)
    /\ produced' = produced + 1
    /\ UNCHANGED <<rdClosed, mainVars, loopVars, regVars, sessVars, panicked, bootVars, decVars>>

\* -------------------------------------------------------- broadcastEvents
\* record, err := s.rd.Read(): a record, or an error once the reader is closed
BroadcastRead ==
    /\ Alive /\ bpc = "read"
    /\ IF rdClosed
       THEN /\ bpc' = "done"
            /\ UNCHANGED <<rec, nread, ring>>
       ELSE /\ ring # <<>>
            /\ rec' = Head(ring)
            /\ ring' = Tail(ring)
            /\ nread' = nread + 1
            /\ bpc' = "decode"
    /\ UNCHANGED <<rdClosed, produced, batch, todo, decoded, made, mainVars, regVars,
                   sessVars, panicked, bootVars, decVars>>

\* (variant) a read error ends the process (log.Fatalf)
BroadcastReadErrorFatal ==
    /\ Alive /\ bpc = "read" /\ ~rdClosed
    /\ bpc' = "done"
    /\ mainPc' = "aborted" /\ fatal' = "ringbuf read"
    /\ UNCHANGED <<rec, nread, batch, todo, decoded, made, srcVars, sigBuf, srv,
                   regVars, sessVars, panicked, rdOpen, bootTime, bootWrites,
                   stamped, decVars>>

\* s.rd.Read() fails for another reason than Close: log and return
BroadcastReadError ==
    /\ Alive /\ bpc = "read" /\ ~rdClosed
    /\ bpc' = "done"
    /\ UNCHANGED <<rec, nread, batch, todo, decoded, made, srcVars, mainVars, regVars,
                   sessVars, panicked, bootVars, decVars>>

\* binary.Read into e, then pbEvent and batch; `continue` on error
BroadcastDecode ==
    /\ Alive /\ bpc = "decode"
    /\ IF BinaryRead(rec)
       THEN /\ batch' = <<nread>>
            /\ decoded' = Append(decoded, nread)
            /\ made' = Append(made, MakeBatch(PbEvent(bootTime,
                                    EventStruct(KernelSample(nread, rec)))))
            /\ stamped' = stamped \cup {StampBase(bootTime, nread)}
            /\ bpc' = "lock"
       ELSE /\ bpc' = DecodeErrorNext
            /\ UNCHANGED <<batch, decoded, made, stamped>>
    /\ rec' = 0
    /\ UNCHANGED <<nread, todo, srcVars, mainVars, regVars, sessVars, panicked,
                   rdOpen, bootTime, bootWrites, fatal, decVars>>

\* (variant) the range goes over every channel ever made
BroadcastLockAll ==
    /\ Alive /\ bpc = "lock" /\ mu = Unlocked
    /\ mu' = LoopHolds
    /\ todo' = {s \in Sessions : spc[s] # "init"}
    /\ bpc' = "send"
    /\ UNCHANGED <<rec, nread, batch, decoded, made, clients, srcVars, mainVars,
                   sessVars, panicked, bootVars, decVars>>

\* s.mu.Lock(); for ch := range s.clients
BroadcastLock ==
    /\ Alive /\ bpc = "lock" /\ mu = Unlocked
    /\ mu' = LoopHolds
    /\ todo' = clients
    /\ bpc' = "send"
    /\ UNCHANGED <<rec, nread, batch, decoded, made, clients, srcVars, mainVars,
                   sessVars, panicked, bootVars, decVars>>

\* (variant) ch <- batch without the default branch: the loop waits, the
\* lock held, until the channel has room
BroadcastSendBlocking ==
    /\ Alive /\ bpc = "send"
    /\ \E ch \in todo :
        /\ closed[ch] \/ Len(queue[ch]) < ChanCap
        /\ todo' = todo \ {ch}
        /\ IF closed[ch]
           THEN /\ panicked' = TRUE
                /\ UNCHANGED queue
           ELSE /\ queue' = [queue EXCEPT ![ch] = TrySend(queue[ch], batch[1])]
                /\ UNCHANGED panicked
    /\ UNCHANGED <<bpc, rec, nread, batch, decoded, made, regVars, srcVars, mainVars,
                   spc, closed, cur, ctxDone, fwd, ret, bootVars, decVars>>

\* one iteration of the range: non-blocking send to ch (any order); a send
\* on a closed channel panics
BroadcastSend ==
    /\ Alive /\ bpc = "send"
    /\ \E ch \in todo :
        /\ todo' = todo \ {ch}
        /\ IF closed[ch]
           THEN /\ panicked' = TRUE
                /\ UNCHANGED queue
           ELSE /\ queue' = [queue EXCEPT ![ch] = TrySend(queue[ch], batch[1])]
                /\ UNCHANGED panicked
    /\ UNCHANGED <<bpc, rec, nread, batch, decoded, made, regVars, srcVars, mainVars,
                   spc, closed, cur, ctxDone, fwd, ret, bootVars, decVars>>

\* range exhausted: s.mu.Unlock(), next iteration of the loop
BroadcastUnlock ==
    /\ Alive /\ bpc = "send" /\ todo = {}
    /\ mu' = Unlocked
    /\ batch' = <<>>
    /\ bpc' = "read"
    /\ UNCHANGED <<rec, nread, todo, decoded, made, clients, srcVars, mainVars,
                   sessVars, panicked, bootVars, decVars>>

BroadcastStep ==
    \/ BroadcastRead \/ BroadcastDecode \/ BroadcastLock
    \/ BroadcastSend \/ BroadcastUnlock

\* ------------------------------------------------------------ StreamEvents
\* a consumer calls StreamEvents: clientChan := make(chan, cap)
Connect(s) ==
    /\ Alive /\ srv = "serving" /\ spc[s] = "init"
    /\ spc' = [spc EXCEPT ![s] = "reg_lock"]
    /\ UNCHANGED <<queue, closed, cur, ctxDone, fwd, ret, mainVars, srcVars,
                   loopVars, regVars, panicked, bootVars, decVars>>

\* (variant) the handler goes on to the map without waiting for the lock
RegLockNoWait(s) ==
    /\ Alive /\ spc[s] = "reg_lock"
    /\ mu' = s
    /\ spc' = [spc EXCEPT ![s] = "reg_insert"]
    /\ UNCHANGED <<clients, queue, closed, cur, ctxDone, fwd, ret, mainVars,
                   srcVars, loopVars, panicked, bootVars, decVars>>

\* s.mu.Lock()
RegLock(s) ==
    /\ Alive /\ spc[s] = "reg_lock" /\ mu = Unlocked
    /\ mu' = s
    /\ spc' = [spc EXCEPT ![s] = "reg_insert"]
    /\ UNCHANGED <<clients, queue, closed, cur, ctxDone, fwd, ret, mainVars,
                   srcVars, loopVars, panicked, bootVars, decVars>>

\* s.clients[clientChan] = struct{}{}; s.mu.Unlock()
RegInsert(s) ==
    /\ Alive /\ spc[s] = "reg_insert" /\ mu = s
    /\ clients' = clients \cup {s}
    /\ mu' = Unlocked
    /\ spc' = [spc EXCEPT ![s] = "select"]
    /\ UNCHANGED <<queue, closed, cur, ctxDone, fwd, ret, mainVars,
                   srcVars, loopVars, panicked, bootVars, decVars>>

\* (variant) the select looks at the context first
SelectRecvUnlessDone(s) ==
    /\ Alive /\ spc[s] = "select" /\ queue[s] # <<>> /\ ~ctxDone[s]
    /\ cur' = [cur EXCEPT ![s] = <<Head(queue[s])>>]
    /\ queue' = [queue EXCEPT ![s] = ChanRest(queue[s])]
    /\ spc' = [spc EXCEPT ![s] = "send"]
    /\ UNCHANGED <<closed, ctxDone, fwd, ret, mainVars, srcVars, loopVars,
                   regVars, panicked, bootVars, decVars>>

\* case batch := <-clientChan
SelectRecv(s) ==
    /\ Alive /\ spc[s] = "select" /\ queue[s] # <<>>
    /\ cur' = [cur EXCEPT ![s] = <<Head(queue[s])>>]
    /\ queue' = [queue EXCEPT ![s] = ChanRest(queue[s])]
    /\ spc' = [spc EXCEPT ![s] = "send"]
    /\ UNCHANGED <<closed, ctxDone, fwd, ret, mainVars, srcVars, loopVars,
                   regVars, panicked, bootVars, decVars>>

\* case <-stream.Context().Done(): return (runs the defer)
SelectDone(s) ==
    /\ Alive /\ spc[s] = "select" /\ ctxDone[s]
    /\ ret' = [ret EXCEPT ![s] = "ctx_err"]
    /\ spc' = [spc EXCEPT ![s] = "unreg_lock"]
    /\ UNCHANGED <<queue, closed, cur, ctxDone, fwd, mainVars, srcVars,
                   loopVars, regVars, panicked, bootVars, decVars>>

\* stream.Send(batch) returns nil
SendOk(s) ==
    /\ Alive /\ spc[s] = "send"
    /\ fwd' = [fwd EXCEPT ![s] = Append(@, cur[s][1])]
    /\ cur' = [cur EXCEPT ![s] = <<>>]
    /\ spc' = [spc EXCEPT ![s] = "select"]
    /\ UNCHANGED <<queue, closed, ctxDone, ret, mainVars, srcVars, loopVars,
                   regVars, panicked, bootVars, decVars>>

\* stream.Send(batch) returns an error
SendFail(s) ==
    /\ Alive /\ spc[s] = "send"
    /\ cur' = [cur EXCEPT ![s] = <<>>]
    /\ ret' = [ret EXCEPT ![s] = "send_err"]
    /\ spc' = [spc EXCEPT ![s] = SendErrorNext]
    /\ UNCHANGED <<queue, closed, ctxDone, fwd, mainVars, srcVars,
                   loopVars, regVars, panicked, bootVars, decVars>>

\* deferred: s.mu.Lock()
UnregLock(s) ==
    /\ Alive /\ spc[s] = "unreg_lock" /\ mu = Unlocked
    /\ mu' = s
    /\ spc' = [spc EXCEPT ![s] = "unreg_delete"]
    /\ UNCHANGED <<clients, queue, closed, cur, ctxDone, fwd, ret, mainVars,
                   srcVars, loopVars, panicked, bootVars, decVars>>

\* deferred: delete(s.clients, clientChan); s.mu.Unlock()
UnregDelete(s) ==
    /\ Alive /\ spc[s] = "unreg_delete" /\ mu = s
    /\ clients' = Unregister(clients, s)
    /\ mu' = Unlocked
    /\ spc' = [spc EXCEPT ![s] = "close"]
    /\ UNCHANGED <<queue, closed, cur, ctxDone, fwd, ret, mainVars,
                   srcVars, loopVars, panicked, bootVars, decVars>>

\* (variant) the handler closes every channel of the map as well
CloseChanAll(s) ==
    /\ Alive /\ spc[s] = "close"
    /\ closed' = [o \in Sessions |-> closed[o] \/ o = s \/ o \in clients]
    /\ spc' = [spc EXCEPT ![s] = "done"]
    /\ UNCHANGED <<queue, cur, ctxDone, fwd, ret, mainVars, srcVars, loopVars,
                   regVars, panicked, bootVars, decVars>>

\* deferred: close(clientChan); the handler returns
CloseChan(s) ==
    /\ Alive /\ spc[s] = "close"
    /\ closed' = [closed EXCEPT ![s] = TRUE]
    /\ spc' = [spc EXCEPT ![s] = "done"]
    /\ UNCHANGED <<queue, cur, ctxDone, fwd, ret, mainVars, srcVars, loopVars,
                   regVars, panicked, bootVars, decVars>>

\* the consumer cancels the RPC or disconnects; the handler looks at the
\* context only in its select, so a cancellation during registration is the
\* same as one on arrival at the select
ConsumerCancel(s) ==
    /\ Alive /\ spc[s] \in {"select", "send"} /\ ~ctxDone[s]
    /\ ctxDone' = [ctxDone EXCEPT ![s] = TRUE]
    /\ UNCHANGED <<spc, queue, closed, cur, fwd, ret, mainVars, srcVars,
                   loopVars, regVars, panicked, bootVars, decVars>>

\* steps a handler takes on its own
SessionStep(s) ==
    \/ RegLock(s) \/ RegInsert(s)
    \/ SelectRecv(s) \/ SelectDone(s) \/ SendOk(s)
    \/ UnregLock(s) \/ UnregDelete(s) \/ CloseChan(s)

MainStep ==
    \/ MainOpenSource \/ MainListen \/ MainBootTime \/ MainGoBroadcast
    \/ MainGoServe \/ MainRecvSignal \/ MainRdClose \/ MainGracefulStop
    \/ MainWaitRPCs

Next ==
    \/ MainStep
    \/ ServeStart
    \/ Signal
    \/ Produce
    \/ BroadcastStep
    \/ BroadcastReadError
    \/ \E s \in Sessions : Connect(s)
    \/ \E s \in Sessions : SessionStep(s)
    \/ \E s \in Sessions : SendFail(s)
    \/ \E s \in Sessions : ConsumerCancel(s)

Spec == Init /\ [][Next]_vars

\* the Go scheduler runs every runnable goroutine; what the environment does
\* (signals, kernel samples, consumers connecting or cancelling, transport
\* or read failures) is not forced
FairSpec ==
    /\ Spec
    /\ WF_vars(MainStep)
    /\ WF_vars(ServeStart)
    /\ WF_vars(BroadcastStep)
    /\ \A s \in Sessions : WF_vars(SessionStep(s))

\* ------------------------------------- the deferred cleanup, run once more
\* the deferred function of StreamEvents (lock, delete, unlock, close) called
\* a second time for a handler that has returned; close of a closed channel
\* panics
UnregisterAgain(s) ==
    /\ Alive /\ spc[s] = "done" /\ mu = Unlocked
    /\ clients' = Unregister(clients, s)
    /\ IF closed[s]
       THEN panicked' = TRUE /\ UNCHANGED closed
       ELSE closed' = [closed EXCEPT ![s] = TRUE] /\ UNCHANGED panicked
    /\ UNCHANGED <<mu, spc, queue, cur, ctxDone, fwd, ret, mainVars, srcVars,
                   loopVars, bootVars, decVars>>

TwiceNext == Next \/ \E s \in Sessions : UnregisterAgain(s)

TwiceSpec == Init /\ [][TwiceNext]_vars

\* ------------------------------------- one subscriber, well-formed records
\* the subscriber of the run
Sub == 1

\* samples and events on their way to the subscriber's channel: pending in
\* the ring buffer, in the loop's hands, in the channel
Outstanding ==
    Len(ring) + Len(queue[Sub])
    + (IF bpc \in {"decode", "lock"} \/ (bpc = "send" /\ Sub \in todo)
       THEN 1 ELSE 0)

\* the kernel side writes a sample of the right length while the one
\* subscriber is registered and has room for everything on its way
ProduceWithRoom ==
    /\ clients = {Sub} /\ Outstanding < ChanCap
    /\ Produce /\ ring' = Append(ring, RecordSize)

\* the startup, the loop, and the handler of the subscriber, whose
\* transport works and whose consumer may leave; no signal, no read error
PipeNext ==
    \/ MainOpenSource \/ MainListen \/ MainBootTime \/ MainGoBroadcast
    \/ MainGoServe \/ ServeStart
    \/ ProduceWithRoom
    \/ BroadcastStep
    \/ Connect(Sub) \/ SessionStep(Sub) \/ ConsumerCancel(Sub)

PipeSpec == Init /\ [][PipeNext]_vars

\* every goroutine runs, the consumer connects, the kernel side goes on
\* writing
FairPipeSpec ==
    /\ PipeSpec
    /\ WF_vars(MainOpenSource \/ MainListen \/ MainBootTime \/ MainGoBroadcast
                    \/ MainGoServe)
    /\ WF_vars(ServeStart) /\ WF_vars(ProduceWithRoom) /\ WF_vars(BroadcastStep)
    /\ WF_vars(Connect(Sub))
    /\ WF_vars(SessionStep(Sub))

\* ------------------------------------ the running program, no shutdown
\* the kernel side writes a sample of the right length
ProduceWellFormed == Produce /\ ring' = Append(ring, RecordSize)

\* the startup, the loop and the handlers, whose consumers may leave and
\* whose transport may fail; no signal, no read error
RunNext ==
    \/ MainOpenSource \/ MainListen \/ MainBootTime \/ MainGoBroadcast
    \/ MainGoServe \/ ServeStart
    \/ ProduceWellFormed
    \/ BroadcastStep
    \/ \E s \in Sessions : Connect(s)
    \/ \E s \in Sessions : SessionStep(s)
    \/ \E s \in Sessions : SendFail(s)
    \/ \E s \in Sessions : ConsumerCancel(s)

RunSpec == Init /\ [][RunNext]_vars

\* the Go scheduler runs every runnable goroutine
FairRunSpec ==
    /\ RunSpec
    /\ WF_vars(BroadcastStep)
    /\ \A s \in Sessions : WF_vars(SessionStep(s))

\* ------------------------------------------------------ the decoder alone
\* a raw sample arrives: its length and its syscall_id field
DecodeFeed ==
    /\ dleft > 0 /\ raw = NoSample /\ bootWrites = 1
    /\ \E smp \in Samples : raw' = smp
    /\ dleft' = dleft - 1
    /\ UNCHANGED <<ev, mainVars, srcVars, loopVars, regVars, sessVars, panicked,
                   bootVars>>

\* serv.bootTime = time.Now().Add(-monoNs), before the loop is started
DecodeBoot ==
    /\ bootWrites = 0
    /\ bootTime' \in BootOffsets
    /\ bootWrites' = bootWrites + 1
    /\ UNCHANGED <<decVars, mainVars, srcVars, loopVars, regVars, sessVars,
                   panicked, rdOpen, stamped, fatal>>

\* binary.Read, then pbEvent with Syscall: syscallName(e.SyscallId); a decode
\* error skips the sample (srcId keeps the field the name was made from)
DecodeSample ==
    /\ raw # NoSample
    /\ ev' = IF BinaryRead(raw.len)
             THEN Append(ev, PbEvent(bootTime, EventStruct(raw)))
             ELSE ev
    /\ raw' = NoSample
    /\ UNCHANGED <<dleft, mainVars, srcVars, loopVars, regVars, sessVars, panicked,
                   bootVars>>

DecodeInit == InitProgram /\ raw = NoSample /\ ev = <<>> /\ dleft = MaxDecode

DecodeNext == DecodeBoot \/ DecodeFeed \/ DecodeSample

DecodeSpec == DecodeInit /\ [][DecodeNext]_vars

\* ---------------------------------------------------------------- helpers
Elems(q) == {q[i] : i \in 1..Len(q)}

RECURSIVE IsSubseq(_, _)
\* a is obtained from b by deleting elements
IsSubseq(a, b) ==
    IF a = <<>> THEN TRUE
    ELSE IF b = <<>> THEN FALSE
    ELSE IF Head(a) = Head(b) THEN IsSubseq(Tail(a), Tail(b))
    ELSE IsSubseq(a, Tail(b))

\* everything a subscriber was handed that is not lost: sent to the consumer,
\* in the handler's hand, or pending in the channel
Pipeline(s) == fwd[s] \o cur[s] \o queue[s]

\* the session's channel is in s.clients by the handler's own steps
Registered(s) == spc[s] \in {"select", "send", "unreg_lock", "unreg_delete"}

\* the broadcast visits ch in this step
Visits(ch) == bpc = "send" /\ ch \in todo /\ ch \notin todo'

\* ------------------------------------------------------------------ claims
\* C1: within a broadcast every send is non-blocking: the loop can always take
\* its next step whatever the channels hold; visiting a full channel changes
\* no channel at all (the event is dropped for that subscriber only), leaves
\* the other subscribers of the range still to be visited, and never touches
\* another subscriber's channel.
C1_NonBlockingSend ==
    /\ [](Alive /\ bpc = "send" => ENABLED (BroadcastSend \/ BroadcastUnlock))
    /\ [][\A ch \in Sessions : Visits(ch) =>
            /\ Len(queue[ch]) >= ChanCap => queue' = queue
            /\ \A o \in Sessions \ {ch} : queue'[o] = queue[o]
            /\ todo' = todo \ {ch}
            /\ bpc' = "send" /\ ~panicked']_vars

\* an event was dropped for the full subscriber a and delivered to b
C1_Witness ==
    /\ bpc = "send"
    /\ \E a, b \in clients \ todo :
        /\ a # b
        /\ Len(queue[a]) = ChanCap
        /\ batch[1] \notin Elems(Pipeline(a))
        /\ batch[1] \in Elems(queue[b])

\* C2: for every subscriber, what was enqueued to it (forwarded, in hand or
\* pending) is a subsequence of the decoded events: each at most once, in
\* decode order.
C2_SubsequenceOfDecoded ==
    \A s \in Sessions : IsSubseq(Pipeline(s), decoded)

\* a subscriber was handed two events, one of them already sent to its
\* consumer, and missed a decoded one
C2_Witness ==
    \E s \in Sessions : Len(fwd[s]) >= 1 /\ Len(queue[s]) >= 1
                        /\ Len(Pipeline(s)) < Len(decoded)

\* C3: a broadcast ranges over exactly the registered subscribers, and a
\* subscriber visited while its channel holds fewer than ChanCap batches gets
\* the event appended to its channel.
C3_EnqueuedWhenRoom ==
    [][/\ (bpc = "lock" /\ bpc' = "send") => todo' = clients
       /\ (bpc = "send" /\ bpc' = "read") => todo = {}
       /\ \A ch \in Sessions :
            (Visits(ch) /\ Len(queue[ch]) < ChanCap)
                => (ch \in clients /\ queue'[ch] = Append(queue[ch], batch[1]))]_vars

\* an event went into a channel that already held one
C3_Witness ==
    \E s \in Sessions : Len(queue[s]) = ChanCap /\ queue[s][ChanCap] = nread
                        /\ bpc = "send"

\* C4: the loop never sends on a closed channel: no panic, and every channel
\* the range still has to visit is registered and open.
C4_NoSendOnClosed ==
    /\ ~panicked
    /\ \A ch \in clients : ~closed[ch]
    /\ bpc = "send" => todo \subseteq clients

\* a session closed its channel while the loop was inside a broadcast that
\* delivered to the other subscriber
C4_Witness ==
    /\ bpc = "send" /\ todo = {}
    /\ \E s, o \in Sessions :
        /\ s # o /\ closed[s] /\ s \notin clients
        /\ o \in clients /\ batch[1] \in Elems(queue[o])

\* C8: a decode error enqueues nothing, leaves every channel and the registry
\* unchanged, and the loop goes on to read the next record.
C8_DecodeErrorSkips ==
    [][(bpc = "decode" /\ bpc' # "decode" /\ ~BinaryRead(rec)) =>
            /\ queue' = queue /\ clients' = clients /\ decoded' = decoded
            /\ closed' = closed /\ batch' = batch
            /\ bpc' = "read"]_vars

\* a record after a skipped one reached a subscriber
C8_Witness ==
    \E s \in Sessions : \E k \in Elems(queue[s]) :
        \E j \in 1..(k - 1) : j \notin Elems(decoded)

\* C10: the registry holds exactly the channels of the handlers between
\* their registration and their deferred removal; a handler that returned
\* has its channel out of the registry and closed, whichever way it left.
C10_RegistryMatchesSessions ==
    /\ clients = {s \in Sessions : Registered(s)}
    /\ \A s \in Sessions : spc[s] = "done" => (s \notin clients /\ closed[s])
    /\ \A s \in Sessions : closed[s] => spc[s] = "done"

\* one handler returned after a send error, another after a cancellation
C10_Witness ==
    \E s, o \in Sessions :
        /\ spc[s] = "done" /\ ret[s] = "send_err"
        /\ spc[o] = "done" /\ ret[o] = "ctx_err"

\* ---------------------------------------------- claims the code contradicts
\* C5 (as stated): once the source is closed the loop's read fails and the
\* loop returns.
C5_LoopReturnsAfterClose == rdClosed ~> (bpc = "done")

\* C6 (as stated): after the source is closed and the loop has returned,
\* every active session terminates.
C6_SessionsEndAfterClose ==
    \A s \in Sessions :
        (rdClosed /\ bpc = "done" /\ spc[s] \notin {"init", "done"}) ~> (spc[s] = "done")

\* C7 (as stated): a signal received while running leads to main returning.
C7_SignalLeadsToStopped ==
    (mainPc = "wait_sig" /\ sigBuf = 1) ~> (mainPc = "stopped")

\* C9 (as stated): a record whose length is not RecordSize, shorter or longer,
\* is a decode error: no event is decoded from it and the loop skips it.
C9_WrongLengthRejected ==
    [][(bpc = "decode" /\ bpc' # "decode" /\ rec # RecordSize) =>
            (decoded' = decoded /\ bpc' = "read")]_vars

\* ------------------------------------------------------- claims C11 .. C20
\* the lifecycle state main is in; a log.Fatalf during startup ends it
Lifecycle(pc) ==
    CASE pc \in {"open_source", "listen", "boot_time", "go_bcast", "go_serve"} -> "Starting"
      [] pc = "wait_sig" -> "Running"
      [] pc \in {"rd_close", "graceful_stop", "wait_rpcs"} -> "Draining"
      [] OTHER -> "Stopped"

LifeRank(pc) ==
    CASE Lifecycle(pc) = "Starting" -> 0 [] Lifecycle(pc) = "Running" -> 1
      [] Lifecycle(pc) = "Draining" -> 2 [] OTHER -> 3

\* session s takes a step of its exit after a failed stream.Send
FailureExitStep(s) == spc'[s] # spc[s] /\ ret'[s] = "send_err"

\* C11: every step of a session's exit after a transport send failure leaves
\* every other session's position, registration, channel and its contents as
\* they were and does not touch the loop; the failed session ends unregistered.
C11_SendFailureIsLocal ==
    /\ [][\A s \in Sessions : FailureExitStep(s) =>
            /\ \A o \in Sessions \ {s} :
                /\ spc'[o] = spc[o] /\ queue'[o] = queue[o]
                /\ closed'[o] = closed[o] /\ ret'[o] = ret[o]
                /\ (o \in clients') = (o \in clients)
            /\ UNCHANGED loopVars
            /\ ~panicked' /\ mainPc' = mainPc]_vars
    /\ [](\A s \in Sessions : (spc[s] = "done" /\ ret[s] = "send_err") => s \notin clients)

\* one session is gone after a send error while a broadcast has just
\* delivered to the other, still registered one
C11_Witness ==
    \E s, o \in Sessions :
        /\ s # o /\ spc[s] = "done" /\ ret[s] = "send_err"
        /\ o \in clients /\ bpc = "send" /\ batch[1] \in Elems(queue[o])

\* C12: serv.bootTime is assigned at most once, it has been assigned when the
\* loop is started (so before its first read) and is never assigned while
\* the loop exists; every event was stamped from that one offset.
C12_BootTimeWrittenOnce ==
    /\ [](/\ bootWrites <= 1
          /\ bpc # "idle" => (bootWrites = 1 /\ bootTime \in BootOffsets)
          /\ nread > 0 => bootWrites = 1
          /\ stamped \subseteq {bootTime})
    /\ [][bpc # "idle" => (bootTime' = bootTime /\ bootWrites' = bootWrites)]_vars

\* two events have been stamped
C12_Witness == Len(decoded) >= 2 /\ stamped = {bootTime} /\ bootWrites = 1

\* C13: the reader is opened before the offset is taken, the offset before
\* the loop is started, the loop before the server is started; no session
\* exists, let alone is registered, before the loop has been started.
C13_StartupOrder ==
    /\ bootWrites > 0 => rdOpen
    /\ bpc # "idle" => bootWrites > 0
    /\ srv # "new" => bpc # "idle"
    /\ \A s \in Sessions : spc[s] # "init" => (srv # "new" /\ bpc # "idle")
    /\ clients # {} => bpc # "idle"

\* a session is registered and the loop has not read anything yet
C13_Witness == clients # {} /\ bpc = "read" /\ nread = 0 /\ rdOpen

\* C14 (as stated): the reader is closed before the server stops accepting,
\* and once it has stopped accepting the registry gets no new member.
C14_NoRegistrationAfterStop ==
    /\ [](srv = "stopped" => rdClosed)
    /\ [][srv = "stopped" => clients' \subseteq clients]_vars

\* C14 (amended): the reader is closed before the server stops accepting,
\* and once it has stopped accepting no new session begins; a session that
\* began before may still enter the registry afterwards.
C14_NoNewSessionAfterStop ==
    /\ [](srv = "stopped" => rdClosed)
    /\ [](mainPc = "rd_close" => srv # "stopped")
    /\ [][srv = "stopped" =>
            \A s \in Sessions : spc[s] = "init" => spc'[s] = "init"]_vars

\* the server has stopped accepting and a session accepted before holds the
\* lock, about to enter the registry
C14_Witness ==
    /\ srv = "stopped" /\ rdClosed
    /\ \E s \in Sessions : spc[s] = "reg_insert"

\* C15 (as stated): main has returned only if the loop has returned and no
\* session is in a transport send.
C15_StoppedAfterLoopAndSends ==
    mainPc = "stopped" => (bpc = "done" /\ \A s \in Sessions : spc[s] # "send")

\* C16: the lifecycle state never moves backwards; a closed reader stays
\* closed and a stopped server stopped; a signal arriving while draining
\* only fills the signal buffer, where it stays: nothing else changes.
C16_ShutdownOneWay ==
    [][/\ LifeRank(mainPc') >= LifeRank(mainPc)
       /\ rdClosed => rdClosed'
       /\ srv = "stopped" => srv' = "stopped"
       /\ (Lifecycle(mainPc) = "Draining" /\ sigBuf' # sigBuf) =>
            /\ sigBuf' = 1
            /\ UNCHANGED <<mainPc, srv, srcVars, loopVars, regVars, sessVars,
                           panicked, bootVars>>
       /\ (Lifecycle(mainPc) = "Draining" /\ sigBuf = 1) => sigBuf' = 1]_vars

\* main has returned after the drain with a second signal still buffered
C16_Witness ==
    /\ mainPc = "stopped" /\ sigBuf = 1
    /\ \E s \in Sessions : spc[s] = "done"

\* C17: a log.Fatalf of the startup (reader, listener) ends the process, and
\* then the loop was never started, the server never served and no session
\* ever began; the process ends this way only.
C17_FatalStartup ==
    /\ (fatal # "") = (mainPc = "aborted")
    /\ fatal # "" => /\ bpc = "idle" /\ srv = "new" /\ nread = 0
                     /\ clients = {}
                     /\ \A s \in Sessions : spc[s] = "init"
    /\ fatal = "ringbuf" => ~rdOpen

\* the listen address could not be bound, the reader being open
C17_Witness == fatal = "listen" /\ rdOpen /\ mainPc = "aborted"

\* C18: no channel ever holds more batches than its capacity.
C18_QueueBounded ==
    \A s \in Sessions : Len(queue[s]) >= 0 /\ Len(queue[s]) <= ChanCap

\* the broadcast is about to visit a channel that is full
C18_Witness ==
    bpc = "send" /\ \E s \in todo : Len(queue[s]) = ChanCap

\* C19 (as stated): the cleanup removes the channel from the registry and
\* closes it, and running it again for the same channel changes neither and
\* does not crash.
C19_UnregisterIdempotent ==
    /\ [](\A s \in Sessions : spc[s] = "done" => (s \notin clients /\ closed[s]))
    /\ [][\A s \in Sessions : spc[s] = "done" =>
            /\ closed'[s] = closed[s]
            /\ (s \in clients') = (s \in clients)
            /\ ~panicked']_vars

\* C20: an event's syscall name is "openat", "write", "rename" for the
\* identifiers 1, 2, 3 and "unknown" for every other one; a sample of full
\* length yields exactly one event whatever its identifier.
C20_SyscallTable ==
    /\ [](\A i \in 1..Len(ev) :
            /\ ev[i].srcId = 1 => ev[i].syscall = "openat"
            /\ ev[i].srcId = 2 => ev[i].syscall = "write"
            /\ ev[i].srcId = 3 => ev[i].syscall = "rename"
            /\ ev[i].srcId \notin {1, 2, 3} => ev[i].syscall = "unknown")
    /\ [][(raw # NoSample /\ raw' = NoSample /\ raw.len >= RecordSize) =>
            (Len(ev') = Len(ev) + 1 /\ ev'[Len(ev')].srcId = raw.id)]_vars

\* identifier 0 and a large identifier both came out as "unknown"
C20_Witness ==
    /\ Len(ev) = 2
    /\ ev[1].srcId = 0 /\ ev[1].syscall = "unknown"
    /\ ev[2].srcId = 2147483647 /\ ev[2].syscall = "unknown"

\* ------------------------------------------------------- claims C21 .. C30
\* C21 (as stated): every event's time is the boot-time offset plus the
\* record's ts taken as an unsigned quantity, top bit included.
C21_TimestampExact ==
    \A i \in 1..Len(ev) :
        ev[i].ts = [k |-> ev[i].src.tsHi, r |-> bootTime + ev[i].src.tsLo]

\* the string sanitizeString is expected to make of each field that is not
\* valid text: every run of invalid bytes gives one "?"
ExpectedText(f) ==
    CASE f = <<255, 97, 0, 0>> -> <<63, 97>>
      [] f = <<97, 255, 254, 98>> -> <<97, 63, 98>>
      [] f = <<97, 255, 0, 0>> -> <<97, 63>>
      [] f = <<195, 0, 0, 0>> -> <<63>>
      [] f = <<97, 98, 99, 195>> -> <<97, 98, 99, 63>>
      [] f = <<169, 97, 0, 0>> -> <<63, 97>>

\* s followed by zero bytes up to width w
ZeroPad(s, w) == s \o [i \in 1..(w - Len(s)) |-> 0]

\* s is field f without its trailing zero bytes
IsTrimOf(s, f) ==
    /\ Len(s) <= Len(f) /\ ZeroPad(s, Len(f)) = f
    /\ s # <<>> => s[Len(s)] # 0

\* the sample at hand has the full length and a string field that is not
\* valid text
InvalidTextSample ==
    /\ raw # NoSample /\ raw.len >= RecordSize
    /\ \/ raw.comm \in InvalidFields \/ raw.path \in InvalidFields
       \/ raw.newPath \in InvalidFields

\* C24: a sample of full length with a string field that is not valid text
\* yields one event; in it each such field has its invalid byte sequences
\* replaced by "?", and pid, syscall name and the other string fields are
\* those of the sample.
C24_InvalidTextSubstituted ==
    /\ [][(InvalidTextSample /\ raw' = NoSample) =>
            (Len(ev') = Len(ev) + 1 /\ ev'[Len(ev')].src = raw)]_vars
    /\ [](\A i \in 1..Len(ev) :
            LET e == ev[i] IN
            /\ e.src.comm \in InvalidFields => e.comm = ExpectedText(e.src.comm)
            /\ e.src.path \in InvalidFields => e.path = ExpectedText(e.src.path)
            /\ e.src.newPath \in InvalidFields
                    => e.newPath = ExpectedText(e.src.newPath)
            /\ e.src.comm \notin InvalidFields => IsTrimOf(e.comm, e.src.comm)
            /\ e.src.path \notin InvalidFields => IsTrimOf(e.path, e.src.path)
            /\ e.src.newPath \notin InvalidFields
                    => IsTrimOf(e.newPath, e.src.newPath)
            /\ e.pid = e.src.pid
            /\ e.syscall = SyscallName(e.src.id))

\* a run of invalid bytes in comm gave one "?", and so did a lead byte
\* without continuation in path
C24_Witness ==
    /\ Len(ev) = 2
    /\ ev[1].src.comm = <<97, 255, 254, 98>> /\ ev[1].comm = <<97, 63, 98>>
    /\ ev[1].pid = 2 /\ ev[1].path = <<97, 98>>
    /\ ev[2].src.path = <<195, 0, 0, 0>> /\ ev[2].path = <<63>>

\* C25: a string field of valid text is decoded to the field without its
\* trailing zero bytes, nothing else removed or changed: padding the string
\* with zero bytes to the field's width gives the field back.
C25_TrimRoundTrip ==
    \A i \in 1..Len(ev) :
        LET e == ev[i] IN
        /\ e.src.comm \in ValidFields => IsTrimOf(e.comm, e.src.comm)
        /\ e.src.path \in ValidFields => IsTrimOf(e.path, e.src.path)
        /\ e.src.newPath \in ValidFields => IsTrimOf(e.newPath, e.src.newPath)

\* a zero byte inside the text was kept, a field without any zero byte and
\* one of zeros only were decoded
C25_Witness ==
    /\ Len(ev) = 2
    /\ ev[1].src.path = <<97, 0, 98, 0>> /\ ev[1].path = <<97, 0, 98>>
    /\ ev[2].src.comm = <<0, 0, 0, 0>> /\ ev[2].comm = <<>>

\* session s is subscribed and has never taken a batch from its channel
NonDraining(s) == spc[s] = "select" /\ fwd[s] = <<>>

\* the broadcast of the decoded event e is past channel s
VisitDone(s, e) ==
    ~(batch = <<e>> /\ (bpc = "lock" \/ (bpc = "send" /\ s \in todo)))

\* the events broadcast from e on whose broadcast is past channel s
OfferedFrom(s, e) ==
    LET Past(x) == x >= e /\ VisitDone(s, x) IN SelectSeq(decoded, Past)

\* the first n elements of q, all of q if it is shorter
FirstN(q, n) == SubSeq(q, 1, IF Len(q) < n THEN Len(q) ELSE n)

\* C22: a subscriber that does not drain holds the first ChanCap of the
\* events broadcast to it in succession, in order: what it holds stays at
\* the front of its channel, and every event after the ChanCap-th was
\* dropped; the loop is not stopped by it.
C22_FirstKeptRestDropped ==
    /\ [](/\ ~panicked
          /\ \A s \in Sessions :
                (NonDraining(s) /\ queue[s] # <<>>) =>
                    queue[s] = FirstN(OfferedFrom(s, Head(queue[s])), ChanCap))
    /\ [][\A s \in Sessions :
            (NonDraining(s) /\ NonDraining(s)') =>
                /\ queue[s] = FirstN(queue'[s], Len(queue[s]))
                /\ (Visits(s) /\ Len(queue[s]) = ChanCap) =>
                        (queue' = queue /\ bpc' = "send")]_vars

\* three events were broadcast to a subscriber that did not drain: the
\* first ChanCap are in its channel, the third was dropped and the loop is
\* back at its read
C22_Witness ==
    \E s \in Sessions :
        /\ NonDraining(s) /\ decoded = <<1, 2, 3>> /\ bpc = "read"
        /\ Len(queue[s]) = ChanCap /\ Head(queue[s]) = 1
        /\ 3 \notin Elems(queue[s])

\* the batch made from record n
BatchOf(n) == made[CHOOSE i \in 1..Len(made) : decoded[i] = n]

\* what the records 1, 2, 3 are expected to arrive as
ExpectedEvents ==
    << [syscall |-> "openat", path |-> <<97, 47>>, newPath |-> <<>>],
       [syscall |-> "write", path |-> <<98, 47>>, newPath |-> <<>>],
       [syscall |-> "rename", path |-> <<99, 47>>, newPath |-> <<120>>] >>

\* the i-th batch sent to the subscriber's consumer is made from record i
\* and holds the i-th expected event
ArrivedAsExpected(i) ==
    /\ fwd[Sub][i] = i
    /\ Len(BatchOf(i)) = 1
    /\ BatchOf(i)[1].syscall = ExpectedEvents[i].syscall
    /\ BatchOf(i)[1].path = ExpectedEvents[i].path
    /\ BatchOf(i)[1].newPath = ExpectedEvents[i].newPath

\* C23: with one subscriber registered and room in its channel, the
\* records 1, 2, 3 reach its consumer: never more batches than records
\* read, each batch in its place with the expected syscall name and paths,
\* and all three eventually unless the consumer leaves.
C23_ThreeInOrder ==
    /\ [](/\ Len(fwd[Sub]) <= nread
          /\ \A i \in 1..Len(fwd[Sub]) : i <= 3 => ArrivedAsExpected(i))
    /\ (clients = {Sub} /\ ~ctxDone[Sub])
            ~> (Len(fwd[Sub]) >= 3 \/ ctxDone[Sub])

\* the consumer has the three batches, nothing is left on the way
C23_Witness ==
    /\ fwd[Sub] = <<1, 2, 3>> /\ queue[Sub] = <<>> /\ cur[Sub] = <<>>
    /\ ~ctxDone[Sub] /\ clients = {Sub}
    /\ \A i \in 1..3 : ArrivedAsExpected(i)

\* C26: every batch made holds exactly one event, that of its record; a
\* record decoded makes exactly one batch, a record skipped none; what is
\* in a channel, in a handler's hand or sent is one of these batches.
C26_OneEventPerBatch ==
    /\ [](/\ Len(made) = Len(decoded)
          /\ \A i \in 1..Len(made) :
                Len(made[i]) = 1 /\ made[i][1].srcId = decoded[i]
          /\ batch # <<>> => batch[1] = decoded[Len(decoded)]
          /\ \A s \in Sessions : Elems(Pipeline(s)) \subseteq Elems(decoded))
    /\ [][(bpc = "decode" /\ bpc' # "decode") =>
            Len(made') = Len(made) + (IF BinaryRead(rec) THEN 1 ELSE 0)]_vars

\* two batches were made from three records, the second record skipped,
\* and both are in a channel
C26_Witness ==
    /\ decoded = <<1, 3>> /\ Len(made) = 2
    /\ \E s \in Sessions : queue[s] = <<1, 3>>

\* C27: a read error while the reader is open ends the loop and nothing
\* else: main, the registry, the sessions and the channels are as before and
\* the process lives; from then on the loop reads no record and no channel
\* grows; a registered session leaves the registry only by its handler
\* returning on a cancellation or a send error.
C27_ReadErrorEndsLoopOnly ==
    /\ [][(bpc = "read" /\ bpc' = "done" /\ ~rdClosed) =>
            /\ UNCHANGED <<mainVars, srcVars, regVars, sessVars, panicked, fatal>>
            /\ (Alive' <=> Alive)]_vars
    /\ [][bpc = "done" =>
            /\ bpc' = "done" /\ nread' = nread /\ decoded' = decoded
            /\ Len(ring') >= Len(ring)
            /\ \A s \in Sessions :
                /\ Len(queue'[s]) <= Len(queue[s])
                /\ (s \in clients /\ s \notin clients')
                        => ret[s] \in {"ctx_err", "send_err"}]_vars

\* the loop has ended on a read error with a sample left unread; main
\* waits for a signal, one session is still subscribed and another has
\* left since
C27_Witness ==
    /\ bpc = "done" /\ ~rdClosed /\ ring # <<>>
    /\ mainPc = "wait_sig" /\ sigBuf = 0
    /\ \E s, o \in Sessions :
        /\ s \in clients /\ spc[s] = "select"
        /\ spc[o] = "done" /\ nread = 0

\* C28: a channel grows only by the loop's send in a broadcast; it shrinks
\* only by its own handler's receive and is closed only by its own handler's
\* deferred close; a sample leaves the ring buffer only by the loop's read.
C28_SingleProducerConsumer ==
    [][/\ \A s \in Sessions :
            /\ Len(queue'[s]) > Len(queue[s]) =>
                    (Visits(s) /\ mu = LoopHolds /\ spc' = spc)
            /\ Len(queue'[s]) < Len(queue[s]) =>
                    (/\ spc[s] = "select" /\ spc'[s] = "send"
                     /\ bpc' = bpc /\ todo' = todo
                     /\ \A o \in Sessions \ {s} : spc'[o] = spc[o])
            /\ closed'[s] # closed[s] =>
                    (/\ spc[s] = "close" /\ spc'[s] = "done"
                     /\ bpc' = bpc
                     /\ \A o \in Sessions \ {s} : spc'[o] = spc[o])
       /\ (Len(ring') < Len(ring) \/ nread' # nread) =>
            (bpc = "read" /\ bpc' = "decode" /\ spc' = spc /\ mainPc' = mainPc)]_vars

\* both channels were filled by the loop; one handler took a batch, sent
\* it and has closed its channel, the other channel still holds one
C28_Witness ==
    \E s, o \in Sessions :
        /\ s # o /\ closed[s] /\ Len(fwd[s]) >= 1
        /\ ~closed[o] /\ queue[o] # <<>> /\ nread >= 2

\* tasks inside a critical section of s.mu
InCritical ==
    {s \in Sessions : spc[s] \in {"reg_insert", "unreg_delete"}}
        \cup (IF bpc = "send" THEN {LoopHolds} ELSE {})

\* C29: a task is inside a critical section only as the holder of the
\* lock, so at most one is; the registry changes only by the session
\* holding the lock, and by its own channel; the range of a broadcast runs
\* with the lock held and the registry does not change under it.
C29_RegistryUnderLock ==
    /\ [](/\ InCritical = (IF mu = Unlocked THEN {} ELSE {mu})
          /\ Cardinality(InCritical) <= 1)
    /\ [][/\ clients' # clients =>
               (/\ mu \in Sessions /\ spc[mu] \in {"reg_insert", "unreg_delete"}
                /\ \A o \in Sessions \ {mu} : (o \in clients') = (o \in clients))
          /\ todo' # todo => (mu = LoopHolds \/ mu' = LoopHolds)
          /\ (bpc = "send" /\ bpc' = "send") => clients' = clients]_vars

\* the loop is inside a broadcast while one handler waits for the lock to
\* register and another for the lock to unregister
C29_Witness ==
    /\ bpc = "send" /\ mu = LoopHolds /\ todo # {}
    /\ \E s, o \in Sessions : spc[s] = "reg_lock" /\ spc[o] = "unreg_lock"

\* C30: the range of a broadcast is the registry as it is when the loop
\* takes the lock, and it stays so until the lock is released; a channel
\* holds nothing before its handler has registered it, gets nothing but the
\* event of the broadcast under way, the newest decoded, and gets nothing
\* once it is out of the registry.
C30_BroadcastAtomic ==
    /\ [](/\ bpc = "send" => todo \subseteq clients
          /\ \A s \in Sessions :
                spc[s] \in {"init", "reg_lock", "reg_insert"} => Pipeline(s) = <<>>)
    /\ [][/\ (bpc = "lock" /\ bpc' = "send") => todo' = clients
          /\ bpc = "send" => clients' = clients
          /\ \A s \in Sessions :
               /\ Visits(s) => s \in clients
               /\ queue'[s] # queue[s] /\ Len(queue'[s]) >= Len(queue[s]) =>
                       (/\ Visits(s)
                        /\ queue'[s] = Append(queue[s], decoded[Len(decoded)])
                        /\ decoded[Len(decoded)] \notin Elems(Pipeline(s)))
               /\ s \notin clients => Len(Pipeline(s)') <= Len(Pipeline(s))]_vars

\* a session that registered after the broadcast of event 1, which the other
\* one got, holds event 2 alone; the other one has left the registry since
\* and did not get event 2
C30_Witness ==
    \E s, o \in Sessions :
        /\ s # o /\ s \in clients /\ Pipeline(s) = <<2>>
        /\ o \notin clients /\ Pipeline(o) = <<1>> /\ bpc = "read"

\* ------------------------------------------------------- claims C31 .. C33
\* C31: the lock is held by the loop only inside the range of a broadcast
\* and by a session only for its insert or delete, and the holder's next
\* step can always be taken (it waits for no record, channel or transport);
\* whoever waits for the lock gets it while the process lives.
C31_LockNeverHeldBlocked ==
    /\ [](/\ mu = LoopHolds <=> bpc = "send"
          /\ \A s \in Sessions :
                mu = s <=> spc[s] \in {"reg_insert", "unreg_delete"}
          /\ (Alive /\ mu = LoopHolds) => ENABLED (BroadcastSend \/ BroadcastUnlock)
          /\ \A s \in Sessions :
                (Alive /\ mu = s) => ENABLED (RegInsert(s) \/ UnregDelete(s)))
    /\ (bpc = "lock") ~> (bpc = "send" \/ ~Alive)
    /\ \A s \in Sessions :
        /\ (spc[s] = "reg_lock") ~> (spc[s] = "reg_insert" \/ ~Alive)
        /\ (spc[s] = "unreg_lock") ~> (spc[s] = "unreg_delete" \/ ~Alive)

\* the loop holds the lock with a full channel still to visit while one
\* session waits for the lock to register and the loop has a record to come
C31_Witness ==
    /\ bpc = "send" /\ mu = LoopHolds
    /\ \E ch \in todo : Len(queue[ch]) = ChanCap
    /\ \E s \in Sessions : spc[s] = "reg_lock"

C33_PendingDiscarded ==
    [][\A s \in Sessions :
        /\ ret[s] # "none" =>
            /\ fwd'[s] = fwd[s] /\ cur'[s] = cur[s]
            /\ queue[s] = FirstN(queue'[s], Len(queue[s]))
            /\ ret'[s] = ret[s]
        /\ (ret[s] = "none" /\ ret'[s] = "send_err") =>
            /\ fwd'[s] = fwd[s] /\ cur'[s] = <<>> /\ queue'[s] = queue[s]
            /\ cur[s][1] \notin Elems(fwd[s]) \cup Elems(queue[s])]_vars

\* a handler has returned after the send of event 2 failed, with event 3
\* left in its channel; its consumer got event 1 only
C33_Witness ==
    \E s \in Sessions :
        /\ spc[s] = "done" /\ ret[s] = "send_err"
        /\ fwd[s] = <<1>> /\ queue[s] = <<3>>

====
